---- MODULE Spec2Model ----
(***************************************************************************)
(* Constrained set-point optimizer of the CSTR workshop                    *)
(* (src/01-process-maps.ipynb): evaluate_pytorch_model, the objective      *)
(* closure of optimal_manipulated_vars, the dual_annealing call, the       *)
(* notebook cell that calls the optimizer and the surrogate's              *)
(* process_dataframe; evaluate_dlr_model of                                *)
(* src/02-deploy-to-greengrass.ipynb; the shuffle-and-split, the process   *)
(* model's process_dataframe, the training loops, the notebook's run from  *)
(* the optimizer's call to the surrogate, evaluate_pytorch_model on        *)
(* buffers, and the model's hand-over from notebook 01 to the compile and  *)
(* packaging requests of notebook 02.                                      *)
(*                                                                         *)
(* Fixed-point units (all values are integers):                            *)
(*   F         milli l/h      5.0 l/h    = 5000,    100.0 l/h = 100000     *)
(*   Q_dot     centi kW       -5000.0 kW = -500000, 0.0 kW    = 0          *)
(*   scaled network inputs    thousandths (0.0 = 0, 1.0 = 1000)            *)
(*   raw network C_a, C_b     1e-5 mol/l                                   *)
(*   raw network T_K output   thousandths (scaled temperature)             *)
(*   prediction F             centi l/h      (round(2))                    *)
(*   prediction Q_dot         deci kW        (round(1))                    *)
(*   prediction C_a, C_b      1e-4 mol/l     (round(4))                    *)
(*   prediction T_K           tenths of a degree (round(1)): 5.0 = 50,     *)
(*                            50.0 = 500, 140.0 = 1400                     *)
(*   C_b_ref                  1e-4 mol/l                                   *)
(*   cost                     1e-8: (dC_b)^2 is exact, and                 *)
(*                            0.01 * (dT/10)^2 = 10000 * dT^2 * 1e-8       *)
(***************************************************************************)
EXTENDS Integers, Sequences, FiniteSets

VARIABLES
    model,            \* the notebook's global name `model` (forward model handle)
    rng,              \* state of numpy's global RandomState (seed=None uses it)
    pc,               \* position: "idle", "visit", "local", "returned", "raised"
    C_b_ref,          \* argument of the running optimal_manipulated_vars call
    seed0,            \* rng state when the running call started (history)
    energy,           \* dual_annealing's energy state: current and best point
    iteration,        \* dual_annealing's global iteration counter
    j,                \* index in the visiting chain, 0 .. 2*dim-1
    k,                \* index of the local search's evaluation, 0 .. 2
    nfev,             \* objective evaluations of the running call
    lastEval,         \* the last objective evaluation: candidate, prediction, cost
    ret,              \* value returned by optimal_manipulated_vars
    controlled_vars,  \* the calling cell's re-evaluation of the returned point
    ncalls,           \* calls started so far
    history,          \* completed calls (history variable)
    exception,        \* the exception that ended the running call, or None
    nobjective,       \* invocations of objective in the running call (history)
    nforward,         \* forward-model queries of the running call (history)
    visited_feasible, \* the running call's search visited a point within
                      \* tolerance of its target (history)
    measurements,     \* notebook 02: evaluate_dlr_model's result and the
                      \* pre-compilation model's for the same input
    train,            \* the surrogate's process_dataframe: table and (X, Y)
    split,            \* cell 44575e64: the data set, shuffled and split
    scaled,           \* cell ea9212b4: process_dataframe's table and (X, Y)
    training,         \* a training loop: epoch, position, gradients, updates
    notebook,         \* a top-to-bottom run of notebook 01 from the first
                      \* optimizer call on: position, lists of cell 0db92370
    frames,           \* evaluate_pytorch_model on tables: the arrays' buffers
    deploy            \* persist/upload of notebook 01 and the run of
                      \* notebook 02: names, requests sent

\* The cells around the optimizer's.
pipeline == <<split, scaled, training, notebook, frames, deploy>>

vars == <<model, rng, pc, C_b_ref, seed0, energy, iteration, j, k, nfev,
          lastEval, ret, controlled_vars, ncalls, history, exception,
          nobjective, nforward, visited_feasible, measurements, train,
          pipeline>>

\* The cells outside the optimizer.
cells == <<measurements, train, pipeline>>

\* The optimizer's own variables and history variables.
optimizer == <<pc, C_b_ref, seed0, energy, iteration, j, k, nfev, lastEval,
               controlled_vars, ncalls, history, exception, nobjective,
               nforward, visited_feasible>>

\* Python's None, and a name not yet bound.
None == <<>>

(***************************************************************************)
(* Bounds of the model and program constants.                              *)
(***************************************************************************)
MaxCalls == 2

\* dual_annealing(objective, bounds=bounds, maxiter=2000)
maxiter == 2000

\* bounds = ((5.0, 100.0), (-5000.0, 0.0))
bounds_F0 == <<<<0, 100000>>, <<-500000, 0>>>>
bounds_Q10000 == <<<<5000, 100000>>, <<-1000000, 0>>>>
bounds == <<<<5000, 100000>>, <<-500000, 0>>>>

dim == Len(bounds)
lower(i) == bounds[i][1]
upper(i) == bounds[i][2]
bound_range(i) == upper(i) - lower(i)

\* The admissible box of the specification, F in [5, 100], Q_dot in [-5000, 0].
InBox(x) == /\ 5000 <= x[1] /\ x[1] <= 100000
            /\ -500000 <= x[2] /\ x[2] <= 0

(***************************************************************************)
(* Inputs: targets, generator states, forward models.                      *)
(***************************************************************************)
\* C_b_ref: 0.6 (cell 2b9309bc) and the negative -0.1, which no point of
\* the box achieves.
Refs == {-1000, 6000}

\* States the global generator can have when numpy is imported.
Seeds == {38}

\* Values of toc-tic, in ticks of the timer.
ElapsedTimes == {0, 1}

\* The forward network is opaque: a deterministic map from the two scaled
\* inputs to three raw outputs, here affine with the parameters below, that
\* raises for the first scaled input in the interval `raises` (empty when
\* its lower end is above its upper end).
Models ==
    { [t0 |-> t, tf |-> s[1], tq |-> s[2], b0 |-> b[1], bf |-> b[2], bq |-> b[3],
       raises |-> <<1, 0>>] :
        t \in {-5000, -4804, -4802},
        s \in {<<50, 4>>, <<60, 5>>},
        b \in {<<-3, 100, 0>>, <<5, 90, 10>>} }

TrainedModels ==
    { [t0 |-> -4802, tf |-> 50, tq |-> 4, b0 |-> -3, bf |-> 100, bq |-> 0,
       raises |-> <<1, 0>>],
      [t0 |-> -5000, tf |-> 60, tq |-> 5, b0 |-> 5, bf |-> 90, bq |-> 10,
       raises |-> <<1, 0>>],
      [t0 |-> -4802, tf |-> 50, tq |-> 4, b0 |-> -3, bf |-> 100, bq |-> 0,
       raises |-> <<190, 210>>],
      [t0 |-> -4802, tf |-> 50, tq |-> 4, b0 |-> 0, bf |-> 59, bq |-> 0,
       raises |-> <<1, 0>>] }

\* model(X_test): raw outputs <<C_a, C_b, T_K scaled>>
Net(m, X) ==
    LET cb == m.b0 + m.bf * X[1] + m.bq * X[2]
        yT == m.t0 + (m.tf * X[1] + m.tq * X[2]) \div 10
    IN  <<100000 - cb, cb, yT>>

(***************************************************************************)
(* evaluate_pytorch_model                                                  *)
(***************************************************************************)
\* numpy's round: to the nearest multiple of d, ties to the even one.
Round(n, d) ==
    LET q == n \div d
        r == n % d
    IN  IF 2 * r < d THEN q
        ELSE IF 2 * r > d THEN q + 1
        ELSE IF q % 2 = 0 THEN q ELSE q + 1

\* The scaled inputs evaluate_pytorch_model feeds the network, thousandths:
\* X_test[:,0] = (X_test[:,0]-5.0)/95.0; X_test[:,1] = (X_test[:,1]+5000.0)/5000.0
X_test_Percent(manipulated_vars) ==
    <<((manipulated_vars.F - 5000) * 1000) \div 100000,
      ((manipulated_vars.Q_dot + 500000) * 1000) \div 500000>>
X_test(manipulated_vars) ==
    <<((manipulated_vars.F - 5000) * 1000) \div 95000,
      ((manipulated_vars.Q_dot + 500000) * 1000) \div 500000>>

\* model(X_test.float()) raises instead of returning.
Raises(m, manipulated_vars) ==
    /\ m.raises[1] <= X_test(manipulated_vars)[1]
    /\ X_test(manipulated_vars)[1] <= m.raises[2]

evaluate_pytorch_model_ScaledC(m, manipulated_vars) ==
    LET Y_test == Net(m, X_test(manipulated_vars))
        T == Y_test[3] * 25 + 125000
    IN  [F     |-> Round(manipulated_vars.F, 10),
         Q_dot |-> Round(manipulated_vars.Q_dot, 10),
         C_a   |-> Round(Y_test[1] * 2, 10),
         C_b   |-> Round(Y_test[2] * 2, 10),
         T_K   |-> Round(T, 100)]
evaluate_pytorch_model(m, manipulated_vars) ==
    LET Y_test == Net(m, X_test(manipulated_vars))
        \* Y_test[:,2] = (Y_test[:,2]*25.0)+125.0, in thousandths of a degree
        T == Y_test[3] * 25 + 125000
    IN  [F     |-> Round(manipulated_vars.F, 10),
         Q_dot |-> Round(manipulated_vars.Q_dot, 10),
         C_a   |-> Round(Y_test[1], 10),
         C_b   |-> Round(Y_test[2], 10),
         T_K   |-> Round(T, 100)]

(***************************************************************************)
(* objective(x), the closure of optimal_manipulated_vars                   *)
(***************************************************************************)
Sq(a) == a * a

Deviation_NotSquared(C_b, ref) == C_b - ref
Deviation(C_b, ref) == Sq(C_b - ref)

TemperaturePenalty_Weight(T_K) ==
    IF T_K < 50 THEN 1000 * Sq(T_K - 50)
    ELSE IF T_K > 1400 THEN 10000 * Sq(T_K - 1400)
    ELSE 0
TemperaturePenalty_Jump(T_K) ==
    IF T_K < 50 THEN 10000 * Sq(T_K)
    ELSE IF T_K > 1400 THEN 10000 * Sq(T_K - 1400)
    ELSE 0
\* if T_K < 5.0: 0.01*(T_K-5.0)**2   elif T_K > 140.0: 0.01*(T_K-140.0)**2
TemperaturePenalty(T_K) ==
    IF T_K < 50 THEN 10000 * Sq(T_K - 50)
    ELSE IF T_K > 1400 THEN 10000 * Sq(T_K - 1400)
    ELSE 0

\* Each evaluation's record keeps the forward-model queries it issued: one
\* query (line 489) of one row (line 488).
objective_Cached(m, ref, x) ==
    LET manipulated_vars == [F |-> x[1], Q_dot |-> x[2]]
        prediction == evaluate_pytorch_model(m, manipulated_vars)
        cost == 0 + Deviation(prediction.C_b, ref)
                  + TemperaturePenalty(prediction.T_K)
    IN  [x |-> x, prediction |-> prediction, cost |-> cost,
         queries |-> IF lastEval # None /\ lastEval.x = x THEN <<>>
                     ELSE << <<manipulated_vars>> >>]
objective(m, ref, x) ==
    LET manipulated_vars == [F |-> x[1], Q_dot |-> x[2]]
        prediction == evaluate_pytorch_model(m, manipulated_vars)
        cost == 0 + Deviation(prediction.C_b, ref)
                  + TemperaturePenalty(prediction.T_K)
    IN  [x |-> x, prediction |-> prediction, cost |-> cost,
         queries |-> << <<manipulated_vars>> >>]

\* objective(x) raises: the exception of the forward model's query.
objective_raises(m, x) == Raises(m, [F |-> x[1], Q_dot |-> x[2]])

\* Neither objective, nor dual_annealing, nor optimal_manipulated_vars has an
\* exception handler: an exception raised in the forward model unwinds the
\* call and the calling cell.
OnException_Continue == "visit"
OnException == "raised"

\* The scenario's tolerance: C_b within 1e-2 of the target, T_K in [5, 140].
WithinTolerance(prediction, ref) ==
    /\ prediction.C_b - ref <= 100 /\ ref - prediction.C_b <= 100
    /\ 50 <= prediction.T_K /\ prediction.T_K <= 1400

(***************************************************************************)
(* scipy.optimize.dual_annealing, as optimal_manipulated_vars calls it:    *)
(* dual_annealing(objective, bounds=bounds, maxiter=2000), every other     *)
(* parameter at its default (seed=None, maxfun=1e7, local search on).      *)
(* The library's loop is modelled after its algorithm: an initial random   *)
(* point, then maxiter iterations of a visiting chain of 2*dim candidates  *)
(* (each wrapped into the bounds and evaluated once), and a local search   *)
(* (L-BFGS-B with forward differences inside the bounds) from the best     *)
(* point whenever the chain improved it. The temperature schedule is       *)
(* abstracted into the generator's draws.                                  *)
(***************************************************************************)
\* numpy's global RandomState, as a small linear congruential generator.
NextRng_Clock(r) == (5 * r + 3 + ncalls) % 64
NextRng(r) == (5 * r + 3) % 64
Draw(r, n) == (r \div 4) % n

\* Number of equal steps a visiting jump is drawn from, per coordinate.
NSteps(i) == <<5, 2>>[i]

\* The d-th jump of coordinate i: a multiple of range/NSteps, or range - 1.
Jump(i, d) ==
    IF d = NSteps(i) THEN bound_range(i) - 1
    ELSE d * (bound_range(i) \div NSteps(i))

\* VisitingDistribution.visiting wraps the visited coordinate into
\* [lower, upper): fmod(fmod(x - lower, range) + range, range) + lower.
Wrap(i, v) == lower(i) + ((v - lower(i)) % bound_range(i))

\* EnergyState.reset: lower + random_sample(dim) * (upper - lower)
InitialPoint(r) ==
    [x   |-> <<lower(1) + Jump(1, Draw(r, NSteps(1) + 1)),
               lower(2) + Jump(2, Draw(NextRng(r), NSteps(2) + 1))>>,
     rng |-> NextRng(NextRng(r))]

\* Step jj of the chain: jj < dim moves every coordinate, jj >= dim moves
\* coordinate jj - dim alone.
Visiting(x, jj, r) ==
    IF jj < dim
    THEN [x   |-> <<Wrap(1, x[1] + Jump(1, Draw(r, NSteps(1) + 1))),
                    Wrap(2, x[2] + Jump(2, Draw(NextRng(r), NSteps(2) + 1)))>>,
          rng |-> NextRng(NextRng(r))]
    ELSE LET i == jj - dim + 1
         IN  [x   |-> [x EXCEPT ![i] = Wrap(i, x[i] + Jump(i, Draw(r, NSteps(i) + 1)))],
              rng |-> NextRng(r)]

\* The finite-difference point of the local search along coordinate i:
\* x + h, or x - h where x + h would leave the bounds.
FiniteDiffPoint(x, i) ==
    IF x[i] + 2 <= upper(i) THEN [x EXCEPT ![i] = x[i] + 2]
    ELSE [x EXCEPT ![i] = x[i] - 2]

LocalSearchPoint(x, kk) == IF kk = 0 THEN x ELSE FiniteDiffPoint(x, kk)

\* StrategyChain.accept_reject: a worse candidate is kept on a draw.
AcceptWorse_Clock(r) == Draw(r + ncalls, 4) = 0
AcceptWorse(r) == Draw(r, 4) = 0

\* The loop's stop test, `if iteration >= maxiter`: maxiter counts global
\* iterations. (maxfun, the evaluation limit, keeps its default of 1e7.)
IterationsDone_Evaluations(it) == nfev >= 2000
IterationsDone_Never(it) == FALSE
IterationsDone(it) == it >= maxiter

(***************************************************************************)
(* The state after the notebook has trained `model` (cell 915dd01f) and    *)
(* defined optimal_manipulated_vars (cell eec27c44).                       *)
(***************************************************************************)
InitWith(ms) ==
    /\ model \in ms
    /\ rng \in Seeds
    /\ pc = "idle"
    /\ C_b_ref = None
    /\ seed0 = None
    /\ energy = None
    /\ iteration = 0
    /\ j = 0
    /\ k = 0
    /\ nfev = 0
    /\ lastEval = None
    /\ ret = None
    /\ controlled_vars = None
    /\ ncalls = 0
    /\ history = <<>>
    /\ exception = None
    /\ nobjective = 0
    /\ nforward = 0
    /\ visited_feasible = FALSE
    /\ measurements = None
    /\ train = None
    /\ split = None
    /\ scaled = None
    /\ training = None
    /\ notebook = None
    /\ frames = None
    /\ deploy = None

Init == InitWith(TrainedModels)

(***************************************************************************)
(* optimal_manipulated_vars(C_b_ref): entry, up to the first objective     *)
(* evaluation of dual_annealing (EnergyState.reset).                       *)
(***************************************************************************)
StartEnergy(ev) ==
    [x |-> ev.x, e |-> ev.cost, xbest |-> ev.x, ebest |-> ev.cost,
     improved |-> FALSE, ls_x |-> ev.x, ls_e |-> ev.cost]

optimal_manipulated_vars(ref) ==
    /\ pc = "idle"
    /\ ncalls < MaxCalls
    /\ LET p == InitialPoint(rng)
       IN  /\ C_b_ref' = ref
           /\ seed0' = rng
           /\ rng' = p.rng
           /\ nfev' = 1
           /\ nobjective' = 1
           /\ IF objective_raises(model, p.x)
              THEN /\ exception' = [raised_by |-> "model", x |-> p.x]
                   /\ pc' = OnException
                   /\ nforward' = 1
                   /\ lastEval' = None
                   /\ energy' = None
                   /\ visited_feasible' = FALSE
              ELSE LET ev == objective(model, ref, p.x)
                   IN  /\ lastEval' = ev
                       /\ energy' = StartEnergy(ev)
                       /\ nforward' = Len(ev.queries)
                       /\ visited_feasible' = WithinTolerance(ev.prediction, ref)
                       /\ pc' = "visit"
                       /\ UNCHANGED exception
    /\ iteration' = 0
    /\ j' = 0
    /\ k' = 0
    /\ ncalls' = ncalls + 1
    /\ UNCHANGED <<model, ret, controlled_vars, history, cells>>

\* Cell 2b9309bc, x, nfev, elapsed_time = optimal_manipulated_vars(0.6): the
\* function is entered for whatever target it is given.
Call_PositiveTarget(ref) == ref > 0 /\ optimal_manipulated_vars(ref)
Call(ref) == optimal_manipulated_vars(ref)

(***************************************************************************)
(* One step of the visiting chain: one candidate, one objective call.      *)
(***************************************************************************)
Accepted_KeepsLast(en, ev, r) ==
    [en EXCEPT !.x = ev.x, !.e = ev.cost, !.xbest = ev.x, !.ebest = ev.cost]
\* StrategyChain.run: a better candidate becomes the current point, and the
\* best point when it is better than the best so far.
Accepted(en, ev, r) ==
    IF ev.cost < en.e
    THEN [en EXCEPT !.x = ev.x, !.e = ev.cost,
                    !.xbest = IF ev.cost < en.ebest THEN ev.x ELSE en.xbest,
                    !.ebest = IF ev.cost < en.ebest THEN ev.cost ELSE en.ebest,
                    !.improved = en.improved \/ ev.cost < en.ebest]
    ELSE IF AcceptWorse(r)
         THEN [en EXCEPT !.x = ev.x, !.e = ev.cost]
         ELSE en

Visit ==
    /\ pc = "visit"
    /\ ~IterationsDone(iteration)
    /\ LET v == Visiting(energy.x, j, rng)
       IN  /\ nfev' = nfev + 1
           /\ nobjective' = nobjective + 1
           /\ IF objective_raises(model, v.x)
              THEN /\ exception' = [raised_by |-> "model", x |-> v.x]
                   /\ pc' = OnException
                   /\ nforward' = nforward + 1
                   /\ rng' = v.rng
                   /\ UNCHANGED <<lastEval, energy, iteration, j, visited_feasible>>
              ELSE LET ev == objective(model, C_b_ref, v.x)
                       en == Accepted(energy, ev, v.rng)
                   IN  /\ lastEval' = ev
                       /\ nforward' = nforward + Len(ev.queries)
                       /\ visited_feasible' =
                             (visited_feasible \/ WithinTolerance(ev.prediction, C_b_ref))
                       /\ rng' = IF ev.cost < energy.e THEN v.rng ELSE NextRng(v.rng)
                       /\ IF j + 1 < 2 * dim
                          THEN /\ j' = j + 1
                               /\ energy' = en
                               /\ UNCHANGED <<pc, iteration>>
                          ELSE /\ j' = 0
                               /\ IF en.improved
                                  THEN /\ pc' = "local"
                                       /\ energy' = [en EXCEPT !.ls_x = en.xbest,
                                                               !.ls_e = en.ebest]
                                       /\ UNCHANGED iteration
                                  ELSE /\ iteration' = iteration + 1
                                       /\ energy' = en
                                       /\ UNCHANGED pc
                       /\ UNCHANGED exception
    /\ k' = 0
    /\ UNCHANGED <<model, C_b_ref, seed0, ret, controlled_vars, ncalls, history, cells>>

(***************************************************************************)
(* One objective call of the local search that follows an improving chain. *)
(***************************************************************************)
AfterLocalSearch(en) ==
    IF en.ls_e < en.ebest
    THEN [en EXCEPT !.x = en.ls_x, !.e = en.ls_e,
                    !.xbest = en.ls_x, !.ebest = en.ls_e, !.improved = FALSE]
    ELSE [en EXCEPT !.improved = FALSE]

LocalSearch ==
    /\ pc = "local"
    /\ LET x == LocalSearchPoint(energy.xbest, k)
       IN  /\ nfev' = nfev + 1
           /\ nobjective' = nobjective + 1
           /\ IF objective_raises(model, x)
              THEN /\ exception' = [raised_by |-> "model", x |-> x]
                   /\ pc' = OnException
                   /\ nforward' = nforward + 1
                   /\ UNCHANGED <<lastEval, energy, iteration, k>>
              ELSE LET ev == objective(model, C_b_ref, x)
                       en == IF ev.cost < energy.ls_e
                             THEN [energy EXCEPT !.ls_x = ev.x, !.ls_e = ev.cost]
                             ELSE energy
                   IN  /\ lastEval' = ev
                       /\ nforward' = nforward + Len(ev.queries)
                       /\ IF k < dim
                          THEN /\ k' = k + 1
                               /\ energy' = en
                               /\ UNCHANGED <<pc, iteration>>
                          ELSE /\ k' = 0
                               /\ energy' = AfterLocalSearch(en)
                               /\ iteration' = iteration + 1
                               /\ pc' = "visit"
                       /\ UNCHANGED exception
    /\ UNCHANGED <<model, rng, C_b_ref, seed0, j, ret, controlled_vars, ncalls,
                   history, visited_feasible, cells>>

(***************************************************************************)
(* return (result['x'], result['nfev'], toc-tic)                           *)
(***************************************************************************)
Result_WithOutputs(x, n, elapsed) ==
    [x |-> x,
     prediction |-> evaluate_pytorch_model(model, [F |-> x[1], Q_dot |-> x[2]]),
     nfev |-> n]
Result_Iterations(x, n, elapsed) ==
    [x |-> x, nfev |-> iteration, elapsed_time |-> elapsed]
\* The tuple's components, named as cell 2b9309bc unpacks them.
Result(x, n, elapsed) == [x |-> x, nfev |-> n, elapsed_time |-> elapsed]

Return ==
    /\ pc = "visit"
    /\ IterationsDone(iteration)
    /\ \E elapsed \in ElapsedTimes :
          ret' = Result(energy.xbest, nfev, elapsed)
    /\ history' = Append(history,
                         [C_b_ref |-> C_b_ref, model |-> model, rng0 |-> seed0,
                          x |-> energy.xbest, nfev |-> nfev, rng1 |-> rng])
    /\ pc' = "returned"
    /\ UNCHANGED <<model, rng, C_b_ref, seed0, energy, iteration, j, k, nfev,
                   lastEval, controlled_vars, ncalls, exception, nobjective,
                   nforward, visited_feasible, cells>>

(***************************************************************************)
(* Cell 2b9309bc after the call: x, nfev, elapsed_time = ...;              *)
(* controlled_vars = evaluate_pytorch_model(model, DataFrame(x))           *)
(***************************************************************************)
EvaluateSolution ==
    /\ pc = "returned"
    /\ controlled_vars' =
          evaluate_pytorch_model(model, [F |-> ret.x[1], Q_dot |-> ret.x[2]])
    /\ pc' = "idle"
    /\ UNCHANGED <<model, rng, C_b_ref, seed0, energy, iteration, j, k, nfev,
                   lastEval, ret, ncalls, history, exception, nobjective,
                   nforward, visited_feasible, cells>>

(***************************************************************************)
(* A kernel restart (also after an exception ended the calling cell)       *)
(* followed by a re-run up to the optimizer's definition:                  *)
(* the notebook's names are gone, numpy's generator is seeded afresh, the  *)
(* same forward model is bound to `model` again.                           *)
(***************************************************************************)
RestartKernel ==
    /\ pc \in {"idle", "raised"}
    /\ ncalls > 0
    /\ pc' = "idle"
    /\ exception' = None
    /\ nobjective' = 0
    /\ nforward' = 0
    /\ visited_feasible' = FALSE
    /\ rng' \in Seeds
    /\ C_b_ref' = None
    /\ seed0' = None
    /\ energy' = None
    /\ iteration' = 0
    /\ j' = 0
    /\ k' = 0
    /\ nfev' = 0
    /\ lastEval' = None
    /\ ret' = None
    /\ controlled_vars' = None
    /\ UNCHANGED <<model, ncalls, history, cells>>

Next ==
    \/ \E ref \in Refs : Call(ref)
    \/ Visit
    \/ LocalSearch
    \/ Return
    \/ EvaluateSolution
    \/ RestartKernel

Spec == Init /\ [][Next]_vars

(***************************************************************************)
(* The objective as a function of its inputs: any forward model of Models, *)
(* any target, any candidate of the box's grid.                            *)
(***************************************************************************)
Candidates ==
    { <<lower(1) + a, lower(2) + b>> :
        a \in {Jump(1, d) : d \in 0..NSteps(1)} \cup {bound_range(1)},
        b \in {Jump(2, d) : d \in 0..NSteps(2)} \cup {bound_range(2)} }

ObjectiveInit == InitWith(Models)

ObjectiveEval ==
    /\ pc = "idle"
    /\ \E ref \in Refs \cup {0, 20000} : \E x \in Candidates :
          /\ C_b_ref' = ref
          /\ lastEval' = objective(model, ref, x)
    /\ UNCHANGED <<model, rng, pc, seed0, energy, iteration, j, k, nfev,
                   ret, controlled_vars, ncalls, history, exception, nobjective,
                   nforward, visited_feasible, cells>>

ObjectiveSpec == ObjectiveInit /\ [][ObjectiveEval]_vars

(***************************************************************************)
(* src/02-deploy-to-greengrass.ipynb: evaluate_dlr_model, run on the model *)
(* compiled from the forward model, for the input the first notebook       *)
(* evaluated with evaluate_pytorch_model (cells 8d227a23 and cd7a9698).    *)
(***************************************************************************)
\* model.run(X_test): the list of the compiled network's outputs; the
\* compiled network computes the function of the network it was compiled from.
DLRModel_run(m, X) == <<Net(m, X)>>

evaluate_dlr_model_Percent(m, manipulated_vars) ==
    LET X0 == ((manipulated_vars.F - 5000) * 1000) \div 100000
        X1 == ((manipulated_vars.Q_dot + 500000) * 1000) \div 500000
        Y_test == DLRModel_run(m, <<X0, X1>>)[1]
        T == Y_test[3] * 25 + 125000
    IN  [F     |-> Round(manipulated_vars.F, 10),
         Q_dot |-> Round(manipulated_vars.Q_dot, 10),
         C_a   |-> Round(Y_test[1], 10),
         C_b   |-> Round(Y_test[2], 10),
         T_K   |-> Round(T, 100)]
evaluate_dlr_model(m, manipulated_vars) ==
    LET \* X_test[:,0] = (X_test[:,0]-5.0)/95.0, in thousandths
        X0 == ((manipulated_vars.F - 5000) * 1000) \div 95000
        \* X_test[:,1] = (X_test[:,1]+5000.0)/5000.0, in thousandths
        X1 == ((manipulated_vars.Q_dot + 500000) * 1000) \div 500000
        \* Y_test = model.run(X_test)[0]
        Y_test == DLRModel_run(m, <<X0, X1>>)[1]
        \* Y_test[:,2] = (Y_test[:,2]*25.0)+125.0, in thousandths of a degree
        T == Y_test[3] * 25 + 125000
    IN  [F     |-> Round(manipulated_vars.F, 10),
         Q_dot |-> Round(manipulated_vars.Q_dot, 10),
         C_a   |-> Round(Y_test[1], 10),
         C_b   |-> Round(Y_test[2], 10),
         T_K   |-> Round(T, 100)]

\* The validation input F = 12.0, Q_dot = -10.0, and the box's grid.
ValidationInputs ==
    {[F |-> 12000, Q_dot |-> -1000]} \cup {[F |-> x[1], Q_dot |-> x[2]] : x \in Candidates}

EvaluateDlr ==
    /\ pc = "idle"
    /\ \E manipulated_vars \in ValidationInputs :
          measurements' =
              [manipulated_vars |-> manipulated_vars,
               pytorch |-> evaluate_pytorch_model(model, manipulated_vars),
               dlr     |-> evaluate_dlr_model(model, manipulated_vars)]
    /\ UNCHANGED <<model, rng, pc, C_b_ref, seed0, energy, iteration, j, k, nfev,
                   lastEval, ret, controlled_vars, ncalls, history, exception,
                   nobjective, nforward, visited_feasible, train, pipeline>>

DeploySpec == ObjectiveInit /\ [][EvaluateDlr]_vars

(***************************************************************************)
(* The surrogate's process_dataframe (cell of `model_data = df[["F",        *)
(* "C_b", "Q_dot"]]`): the input is the column C_b, the targets are the    *)
(* columns F and Q_dot. A table is a sequence of rows; C_b in 1e-4 mol/l,  *)
(* the scaled targets in thousandths.                                      *)
(***************************************************************************)
MaxRows == 2

SurrogateRows ==
    { [F |-> f, C_b |-> c, Q_dot |-> q] :
        f \in {5000, 52500, 100000},
        c \in {0, 6000, 11900},
        q \in {-500000, -1000, 0} }

\* The tables of one to MaxRows rows.
Tables == UNION {[1..n -> SurrogateRows] : n \in 1..MaxRows}

process_dataframe_surrogate_ScaledInput(df) ==
    [X |-> [i \in 1..Len(df) |-> <<df[i].C_b \div 12>>],
     Y |-> [i \in 1..Len(df) |->
              <<((df[i].F - 5000) * 1000) \div 95000,
                ((df[i].Q_dot + 500000) * 1000) \div 500000>>]]
process_dataframe_surrogate(df) ==
    [\* X = df[['C_b']].values
     X |-> [i \in 1..Len(df) |-> <<df[i].C_b>>],
     \* Y[:,0] = (Y[:,0]-5.0)/95.0; Y[:,1] = (Y[:,1]+5000.0)/5000.0
     Y |-> [i \in 1..Len(df) |->
              <<((df[i].F - 5000) * 1000) \div 95000,
                ((df[i].Q_dot + 500000) * 1000) \div 500000>>]]

\* The cell runs once on the table it is given.
ProcessDataframe ==
    /\ pc = "idle"
    /\ train = None
    /\ \E df \in Tables :
          /\ train' = [df |-> df,
                       X  |-> process_dataframe_surrogate(df).X,
                       Y  |-> process_dataframe_surrogate(df).Y]
    /\ UNCHANGED <<model, rng, pc, C_b_ref, seed0, energy, iteration, j, k, nfev,
                   lastEval, ret, controlled_vars, ncalls, history, exception,
                   nobjective, nforward, visited_feasible, measurements, pipeline>>

SurrogateSpec == Init /\ [][ProcessDataframe]_vars

(***************************************************************************)
(* Properties                                                              *)
(***************************************************************************)
Calls == 1..Len(history)

C2_ResultInBox == ret # None => InBox(ret.x)

\* C2 witness: a call has returned a set point on the box's lower Q_dot bound.
C2_Witness == pc = "returned" /\ ret.x[2] = -500000

\* The cost of the specification's objective for a prediction and a target.
LowPenalty(T_K) == IF T_K < 50 THEN 10000 * Sq(T_K - 50) ELSE 0
HighPenalty(T_K) == IF T_K > 1400 THEN 10000 * Sq(T_K - 1400) ELSE 0
PenaltyOf(ev, ref) == ev.cost - Sq(ev.prediction.C_b - ref)

Dist(T_K) == IF T_K < 50 THEN 50 - T_K ELSE IF T_K > 1400 THEN T_K - 1400 ELSE 0

C5_CostNonNegative == lastEval # None => lastEval.cost >= 0

\* C5 witness: an evaluation whose predicted C_b is below the target and
\* whose predicted T_K is below 5.0 (both differences are negative).
C5_Witness ==
    /\ lastEval # None
    /\ lastEval.prediction.C_b < C_b_ref
    /\ lastEval.prediction.T_K < 50

\* C6: a candidate whose predicted T_K is below 50.0 or above 140.0 (outside
\* the documented safe range) gets a strictly positive temperature penalty.
C6_DocumentedSafeRange ==
    lastEval # None =>
        ((lastEval.prediction.T_K < 500 \/ lastEval.prediction.T_K > 1400)
            => PenaltyOf(lastEval, C_b_ref) > 0)

\* C7 as claimed: one call performs at most 2000 objective evaluations and
\* returns a count of at most 2000.
C7_AtMost2000Evaluations ==
    /\ nfev <= 2000
    /\ ret # None => ret.nfev <= 2000

\* C7 amended: a call performs at most 2000 global iterations; every
\* iteration evaluates the objective at least 2*dim = 4 times, so a call
\* returns a count of at least 1 + 4*2000.
C7_IterationBudget ==
    /\ iteration <= 2000
    /\ nfev >= 4 * iteration
    /\ ret # None => ret.nfev >= 8001

\* C7 witness: a call has returned after its 2000th iteration.
C7_Witness == pc = "returned" /\ iteration = 2000 /\ ret.nfev = nfev

\* C8 as claimed: the returned value consists of the set point, the
\* predicted outputs at the set point and the evaluation count.
C8_ReturnsOutputs ==
    pc = "returned" =>
        /\ DOMAIN ret = {"x", "prediction", "nfev"}
        /\ ret.x = energy.xbest
        /\ ret.nfev = nfev

\* C8 amended: the returned value consists of the best set point, the
\* evaluation count and the elapsed time; the predicted outputs are what the
\* calling cell computes by evaluating the forward model at the set point.
C8_ReturnsPointCountTime ==
    /\ pc = "returned" =>
          /\ DOMAIN ret = {"x", "nfev", "elapsed_time"}
          /\ ret.x = energy.xbest
          /\ ret.nfev = nfev
          /\ ret.elapsed_time >= 0
    /\ (pc = "idle" /\ controlled_vars # None) =>
          controlled_vars =
              evaluate_pytorch_model(model, [F |-> ret.x[1], Q_dot |-> ret.x[2]])

\* C8 witness: the calling cell has evaluated the forward model at the
\* returned set point.
C8_Witness ==
    /\ pc = "idle"
    /\ controlled_vars # None
    /\ controlled_vars.F = Round(ret.x[1], 10)

RowOf(x) == [F |-> x[1], Q_dot |-> x[2]]
RawOutputs(x) == Net(model, X_test(RowOf(x)))

ScalingIntoUnitSquare(x) ==
    LET X == X_test(RowOf(x))
    IN  /\ 0 <= X[1] /\ X[1] <= 1000
        /\ 0 <= X[2] /\ X[2] <= 1000
        /\ x[1] = 5000 => X[1] = 0
        /\ x[1] = 100000 => X[1] = 1000
        /\ x[2] = -500000 => X[2] = 0
        /\ x[2] = 0 => X[2] = 1000

\* C13 as claimed: the inputs are scaled into the unit square and the T_K
\* returned is raw_output*25.0 + 125.0.
C13_ScalingAndRawTemperature ==
    lastEval # None =>
        /\ ScalingIntoUnitSquare(lastEval.x)
        /\ lastEval.prediction.T_K * 100 = RawOutputs(lastEval.x)[3] * 25 + 125000

\* C13 amended: the inputs are scaled into the unit square, corners to
\* corners, and the T_K returned is raw_output*25.0 + 125.0 rounded to one
\* decimal.
C13_ScalingAndRoundedTemperature ==
    lastEval # None =>
        /\ ScalingIntoUnitSquare(lastEval.x)
        /\ lastEval.prediction.T_K =
              Round(RawOutputs(lastEval.x)[3] * 25 + 125000, 100)

\* C13 witness: the upper corner of the box has been evaluated, and the
\* rescaled temperature there is not a multiple of 0.1.
C13_Witness ==
    /\ lastEval # None
    /\ lastEval.x = <<100000, 0>>
    /\ (RawOutputs(lastEval.x)[3] * 25 + 125000) % 100 # 0

\* C14 as claimed: the C_a and C_b returned are the network's raw outputs,
\* unchanged.
C14_ConcentrationsUnchanged ==
    lastEval # None =>
        /\ lastEval.prediction.C_a * 10 = RawOutputs(lastEval.x)[1]
        /\ lastEval.prediction.C_b * 10 = RawOutputs(lastEval.x)[2]

\* C14 amended: the C_a and C_b returned are the network's raw outputs
\* rounded to four decimals, with no scaling, and the rounded C_b is the
\* one the objective compares with the target.
C14_ConcentrationsRounded ==
    lastEval # None =>
        /\ lastEval.prediction.C_a = Round(RawOutputs(lastEval.x)[1], 10)
        /\ lastEval.prediction.C_b = Round(RawOutputs(lastEval.x)[2], 10)
        /\ lastEval.cost - LowPenalty(lastEval.prediction.T_K)
                         - HighPenalty(lastEval.prediction.T_K)
             = Sq(Round(RawOutputs(lastEval.x)[2], 10) - C_b_ref)

\* C14 witness: an evaluation whose raw C_b has a non-zero fifth decimal.
C14_Witness ==
    /\ lastEval # None
    /\ RawOutputs(lastEval.x)[2] % 10 # 0
    /\ lastEval.prediction.C_b # C_b_ref

\* C15: every objective evaluation of a call issues exactly one forward-model
\* query, of exactly one row, the candidate itself; the prediction it uses
\* is that query's, also for a candidate evaluated before.
C15_OneQueryPerEvaluation ==
    /\ pc \in {"visit", "local", "returned"} => nforward = nobjective
    /\ lastEval # None =>
          /\ Len(lastEval.queries) = 1
          /\ lastEval.queries[1] = <<RowOf(lastEval.x)>>
          /\ lastEval.prediction = evaluate_pytorch_model(model, lastEval.queries[1][1])

\* C15 witness: the local search has evaluated again the best point of the
\* chain, which the chain had evaluated already.
C15_Witness ==
    /\ pc = "local"
    /\ k = 1
    /\ lastEval.x = energy.xbest
    /\ nforward = nobjective
    /\ nobjective > 4

\* Steps the running call can still take, at most.
Rank ==
    IF pc = "visit" THEN 1 + (maxiter - iteration) * (3 * dim + 1) - j
    ELSE IF pc = "local" THEN 1 + (maxiter - iteration) * (3 * dim + 1) - 2 * dim - k
    ELSE 0

C20_CountIsInvocations ==
    /\ pc \in {"visit", "local"} => nfev = nobjective
    /\ pc = "returned" => (ret.nfev = nobjective /\ nobjective = nforward)

\* C20 witness: a call that ran local searches has returned its count.
C20_Witness ==
    /\ pc = "returned"
    /\ ret.nfev > 1 + 2 * dim * maxiter
    /\ ret.nfev = nforward

\* Some point of the box's grid is within tolerance of the target under the
\* forward model.
FeasiblePointExists(ref) ==
    \E x \in Candidates :
        WithinTolerance(evaluate_pytorch_model(model, RowOf(x)), ref)

C17_CompiledMatchesOriginal ==
    measurements # None => measurements.dlr = measurements.pytorch

\* C17 witness: both have been evaluated for F = 12.0, Q_dot = -10.0.
C17_Witness ==
    /\ measurements # None
    /\ measurements.manipulated_vars = [F |-> 12000, Q_dot |-> -1000]
    /\ measurements.dlr.F = 1200
    /\ measurements.dlr.Q_dot = -100

\* C18: in the surrogate's training data every F target is (F - 5.0)/95.0,
\* every Q_dot target is (Q_dot + 5000.0)/5000.0 (the forward model's scaling
\* of its inputs), and the single input is C_b, unscaled.
C18_SurrogateScaling ==
    train # None =>
        /\ Len(train.X) = Len(train.df) /\ Len(train.Y) = Len(train.df)
        /\ \A i \in 1..Len(train.df) :
              LET row == train.df[i]
                  Y   == train.Y[i]
              IN  /\ train.X[i] = <<row.C_b>>
                  /\ Len(Y) = 2
                  /\ Y[1] * 95000 <= (row.F - 5000) * 1000
                  /\ (row.F - 5000) * 1000 < (Y[1] + 1) * 95000
                  /\ Y[2] * 500000 <= (row.Q_dot + 500000) * 1000
                  /\ (row.Q_dot + 500000) * 1000 < (Y[2] + 1) * 500000
                  /\ Y = X_test([F |-> row.F, Q_dot |-> row.Q_dot])

\* C18 witness: a table of two rows has been processed, one of them with
\* F = 100 and a non-zero C_b.
C18_Witness ==
    /\ train # None
    /\ Len(train.df) = 2
    /\ train.df[2].F = 100000
    /\ train.X[2] = <<6000>>
    /\ train.Y[2][1] = 1000

\* ---------------------------------------------------------------------
\* Notebook 01, cells 44575e64 and b5e909a7: shuffle and split.
\*   train_data, validation_data =
\*       np.split(model_data.sample(frac=1, random_state=42),
\*                [int(0.9 * len(model_data))])
\* A table is the sequence of its index labels; model_data has the labels
\* 1..n in order.
\* ---------------------------------------------------------------------

\* The largest data set.
MaxN == 5

SplitCells == {"44575e64", "b5e909a7"}

\* DataFrame.sample(frac=1, replace=True): n draws with replacement.
sample_WithReplacement(model_data) ==
    [1..Len(model_data) -> {model_data[i] : i \in 1..Len(model_data)}]

\* DataFrame.sample(frac=1, random_state=42): the rows in a shuffled order.
\* The order the seed gives is not modelled: every order is possible.
sample(model_data) ==
    {s \in [1..Len(model_data) -> {model_data[i] : i \in 1..Len(model_data)}] :
        \A a, b \in 1..Len(model_data) : s[a] = s[b] => a = b}

\* int(0.9 * len(model_data)): the product is a double, int() truncates it.
\* For every length up to 200000 the double product truncates to 9n div 10.
SplitPoint(n) == (9 * n) \div 10

\* np.split(ary, [i]): the rows before position i and the rows from it on.
np_split(ary, i) == <<SubSeq(ary, 1, i), SubSeq(ary, i + 1, Len(ary))>>

ShuffleSplit ==
    /\ pc = "idle"
    /\ split = None
    /\ \E cell \in SplitCells, n \in 0..MaxN :
         LET model_data == [i \in 1..n |-> i] IN
         \E shuffled \in sample(model_data) :
           LET parts == np_split(shuffled, SplitPoint(Len(model_data))) IN
           split' = [cell |-> cell, model_data |-> model_data,
                     train_data |-> parts[1], validation_data |-> parts[2]]
    /\ UNCHANGED <<model, rng, ret, optimizer, measurements, train, scaled,
                   training, notebook, frames, deploy>>

SplitSpec == Init /\ [][ShuffleSplit]_vars

Labels(table) == {table[i] : i \in 1..Len(table)}

\* C23: the shuffle-and-split puts every row of the n rows into exactly one
\* of the two sets: the training and validation sets have no row in common
\* and no row twice, together they hold all n rows, and the training set
\* has floor(0.9 n) rows.
C23_SplitPartitions ==
    split # None =>
        LET n == Len(split.model_data)
            t == split.train_data
            v == split.validation_data
        IN  /\ Labels(t) \cap Labels(v) = {}
            /\ Labels(t) \cup Labels(v) = Labels(split.model_data)
            /\ Cardinality(Labels(t)) = Len(t)
            /\ Cardinality(Labels(v)) = Len(v)
            /\ Len(t) + Len(v) = n
            /\ 10 * Len(t) <= 9 * n
            /\ 9 * n < 10 * (Len(t) + 1)

C23_Witness ==
    /\ split # None
    /\ split.cell = "b5e909a7"
    /\ Len(split.model_data) = 5
    /\ split.train_data = <<4, 1, 5, 2>>
    /\ split.validation_data = <<3>>

\* ---------------------------------------------------------------------
\* Notebook 01, cell ea9212b4: process_dataframe of the process model.
\* A row of the historical data: F milli l/h, Q_dot centi kW, C_a and C_b
\* 1e-5 mol/l, T_K thousandths of a degree.  The scaled temperature is in
\* thousandths, the unit of the network's raw T_K output.
\* ---------------------------------------------------------------------
HistoricalRows ==
    [F : {5000, 12000, 100000}, Q_dot : {-500000, -1000}, C_a : {25000},
     C_b : {60000}, T_K : {50000, 125000, 139990, 150000}]

HistoricalTables == UNION {[1..n -> HistoricalRows] : n \in 1..MaxRows}

\* Y[:,2] = (Y[:,2]-100.0)/50.0
process_dataframe_Rescaled(df) ==
    [X |-> [i \in 1..Len(df) |->
              <<((df[i].F - 5000) * 1000) \div 95000,
                ((df[i].Q_dot + 500000) * 1000) \div 500000>>],
     Y |-> [i \in 1..Len(df) |->
              <<df[i].C_a, df[i].C_b, (df[i].T_K - 100000) \div 50>>]]
process_dataframe(df) ==
    [\* X[:,0] = (X[:,0]-5.0)/95.0; X[:,1] = (X[:,1]+5000.0)/5000.0
     X |-> [i \in 1..Len(df) |->
              <<((df[i].F - 5000) * 1000) \div 95000,
                ((df[i].Q_dot + 500000) * 1000) \div 500000>>],
     \* Y = df[['C_a', 'C_b', 'T_K']].values; Y[:,2] = (Y[:,2]-125.0)/25.0
     Y |-> [i \in 1..Len(df) |->
              <<df[i].C_a, df[i].C_b, (df[i].T_K - 125000) \div 25>>]]

\* evaluate_pytorch_model: Y_test[:,2] = (Y_test[:,2]*25.0)+125.0,
\* thousandths of a degree from thousandths of the scaled temperature.
Y_test_T_K(y) == y * 25 + 125000

\* X_train, Y_train = process_dataframe(train_data)
ProcessTrainData ==
    /\ pc = "idle"
    /\ scaled = None
    /\ \E df \in HistoricalTables :
          scaled' = [df |-> df,
                     X  |-> process_dataframe(df).X,
                     Y  |-> process_dataframe(df).Y]
    /\ UNCHANGED <<model, rng, ret, optimizer, measurements, train, split,
                   training, notebook, frames, deploy>>

ScalingSpec == Init /\ [][ProcessTrainData]_vars

num_epochs == 1000

TrainingLoops == {"55f02b84", "59029f1b"}

\* loss.backward(): the loss's gradient is added to the parameters' .grad
backward(grad, loss) == Append(grad, loss)

\* optimizer.zero_grad() that leaves .grad as it is
zero_grad_Keep(grad) == grad
\* optimizer.zero_grad(): .grad is cleared
zero_grad(grad) == <<>>

\* model = ...; optimizer = torch.optim.Adam(model.parameters(), ...);
\* num_epochs = 1000; training_loss, validation_loss = [], []
StartTraining ==
    /\ pc = "idle"
    /\ training = None
    /\ \E loop \in TrainingLoops :
         training' = [loop |-> loop, epoch |-> 0, at |-> "forward",
                      t_loss |-> None, v_loss |-> None, grad |-> <<>>,
                      update |-> None, updates |-> 0, moments |-> {},
                      training_loss |-> 0, validation_loss |-> 0]
    /\ UNCHANGED <<model, rng, ret, optimizer, measurements, train, split,
                   scaled, notebook, frames, deploy>>

\* Y_pred = model(X_train.requires_grad_()); t_loss = l(Y_pred, Y_train);
\* training_loss.append(t_loss.item())
TrainingLoss ==
    /\ training # None
    /\ training.at = "forward"
    /\ training' = [training EXCEPT !.t_loss = <<"t_loss", training.epoch>>,
                                    !.training_loss = @ + 1,
                                    !.at = "validate"]
    /\ UNCHANGED <<model, rng, ret, optimizer, measurements, train, split,
                   scaled, notebook, frames, deploy>>

\* Y_pred = model(X_validation); v_loss = l(Y_pred, Y_validation);
\* validation_loss.append(v_loss.item())
ValidationLoss ==
    /\ training # None
    /\ training.at = "validate"
    /\ training' = [training EXCEPT !.v_loss = <<"v_loss", training.epoch>>,
                                    !.validation_loss = @ + 1,
                                    !.at = "backward"]
    /\ UNCHANGED <<model, rng, ret, optimizer, measurements, train, split,
                   scaled, notebook, frames, deploy>>

\* t_loss.backward()
Backpropagation ==
    /\ training # None
    /\ training.at = "backward"
    /\ training' = [training EXCEPT !.grad = backward(@, training.t_loss),
                                    !.at = "step"]
    /\ UNCHANGED <<model, rng, ret, optimizer, measurements, train, split,
                   scaled, notebook, frames, deploy>>

\* optimizer.step(): Adam reads .grad, folds it into its moment estimates
\* and updates the weights.
UpdateWeights ==
    /\ training # None
    /\ training.at = "step"
    /\ training' = [training EXCEPT
                       !.update = [epoch |-> training.epoch,
                                   grad  |-> training.grad],
                       !.updates = @ + 1,
                       !.moments = @ \cup {training.grad[i][1] :
                                             i \in 1..Len(training.grad)},
                       !.at = "zero_grad"]
    /\ UNCHANGED <<model, rng, ret, optimizer, measurements, train, split,
                   scaled, notebook, frames, deploy>>

\* optimizer.zero_grad(), and the loop's next epoch or its end
ClearGradients ==
    /\ training # None
    /\ training.at = "zero_grad"
    /\ training' = [training EXCEPT
                       !.grad = zero_grad(@),
                       !.epoch = @ + 1,
                       !.at = IF training.epoch + 1 < num_epochs
                              THEN "forward" ELSE "done"]
    /\ UNCHANGED <<model, rng, ret, optimizer, measurements, train, split,
                   scaled, notebook, frames, deploy>>

TrainingSpec ==
    Init /\ [][StartTraining \/ TrainingLoss \/ ValidationLoss
               \/ Backpropagation \/ UpdateWeights \/ ClearGradients]_vars

CellOrder_SurrogateFirst == <<"2b9309bc", "59029f1b", "0db92370">>
\* The cells in the order of the file.
CellOrder == <<"2b9309bc", "0db92370", "59029f1b">>

NextCell(c) ==
    LET i == CHOOSE n \in 1..Len(CellOrder) : CellOrder[n] = c
    IN  IF i < Len(CellOrder) THEN CellOrder[i + 1] ELSE "end"

\* model = CSTROptimizer(): one input (C_b), two outputs (F, Q_dot)
CSTROptimizer == [inputs |-> 1, outputs |-> 2]

\* np.arange(start, stop, step) with the stop included
arange_Closed(start, stop, step) ==
    [i \in 1..((stop - start) \div step + 1) |-> start + (i - 1) * step]
\* np.arange(start, stop, step): ceil((stop - start)/step) values
\* start + i*step
arange(start, stop, step) ==
    [i \in 1..((stop - start + step - 1) \div step) |-> start + (i - 1) * step]

\* np.arange(start=0.0, stop=1.2, step=0.01), in 1e-4 mol/l
SurrogateTargets == arange(0, 12000, 100)

\* optimal_manipulated_vars(C_b_ref) with `model` bound to m and the
\* generator in state r: the objective's forward evaluation is made by m.
\* The surrogate cannot take the objective's two-column input: it raises.
optimal_manipulated_vars_step(m, ref, r) ==
    LET p == InitialPoint(r)
    IN  IF m = CSTROptimizer
        THEN [raised |-> TRUE, model |-> m, C_b_ref |-> ref, rng |-> p.rng]
        ELSE IF objective_raises(m, p.x)
        THEN [raised |-> TRUE, model |-> m, C_b_ref |-> ref, rng |-> p.rng]
        ELSE [raised |-> FALSE, model |-> m, C_b_ref |-> ref, rng |-> p.rng,
              x |-> objective(m, ref, p.x).x, nfev |-> 1]

optimizer_run == <<pc, C_b_ref, seed0, energy, iteration, j, k, nfev,
                   lastEval, ncalls, history, exception, nobjective,
                   nforward, visited_feasible>>

\* The run starts with the process model trained and bound to `model`.
StartNotebook ==
    /\ pc = "idle"
    /\ notebook = None
    /\ \E generate_surrogate_model_data \in BOOLEAN :
         notebook' = [at |-> CellOrder[1],
                      process_model |-> model,
                      generate_surrogate_model_data
                          |-> generate_surrogate_model_data,
                      calls |-> <<>>, i |-> 0,
                      C_b_ls |-> <<>>, F_ls |-> <<>>, Q_dot_ls |-> <<>>,
                      df |-> None, csv |-> None]
    /\ UNCHANGED <<model, rng, ret, controlled_vars, optimizer_run,
                   measurements, train, split, scaled, training, frames,
                   deploy>>

\* Cell 2b9309bc: x, nfev, elapsed_time = optimal_manipulated_vars(0.6);
\* controlled_vars = evaluate_pytorch_model(model, ...)
OptimizeCell ==
    /\ notebook # None
    /\ notebook.at = "2b9309bc"
    /\ LET c == optimal_manipulated_vars_step(model, 6000, rng)
       IN  /\ rng' = c.rng
           /\ IF c.raised
              THEN /\ notebook' = [notebook EXCEPT !.calls = Append(@, c),
                                                   !.at = "stopped"]
                   /\ UNCHANGED <<ret, controlled_vars>>
              ELSE /\ \E elapsed \in ElapsedTimes :
                        ret' = Result(c.x, c.nfev, elapsed)
                   /\ controlled_vars' =
                        evaluate_pytorch_model(model, [F |-> c.x[1],
                                                       Q_dot |-> c.x[2]])
                   /\ notebook' = [notebook EXCEPT !.calls = Append(@, c),
                                                   !.at = NextCell("2b9309bc")]
    /\ UNCHANGED <<model, optimizer_run, measurements, train, split, scaled,
                   training, frames, deploy>>

\* Cell 0db92370 up to the loop: the flag is tested, the lists are made;
\* with the flag off the table is read from the file.
SurrogateDataCell ==
    /\ notebook # None
    /\ notebook.at = "0db92370"
    /\ IF notebook.generate_surrogate_model_data
       THEN notebook' = [notebook EXCEPT !.C_b_ls = <<>>, !.F_ls = <<>>,
                                         !.Q_dot_ls = <<>>, !.i = 0,
                                         !.at = "for C_b"]
       ELSE notebook' = [notebook EXCEPT !.df = "read_csv",
                                         !.at = NextCell("0db92370")]
    /\ UNCHANGED <<model, rng, ret, controlled_vars, optimizer_run,
                   measurements, train, split, scaled, training, frames,
                   deploy>>

\* One iteration of `for C_b in np.arange(...)`: the call and three appends.
SurrogateDataIteration ==
    /\ notebook # None
    /\ notebook.at = "for C_b"
    /\ notebook.i < Len(SurrogateTargets)
    /\ LET C_b == SurrogateTargets[notebook.i + 1]
           c   == optimal_manipulated_vars_step(model, C_b, rng)
       IN  /\ rng' = c.rng
           /\ IF c.raised
              THEN /\ notebook' = [notebook EXCEPT !.calls = Append(@, c),
                                                   !.at = "stopped"]
                   /\ UNCHANGED ret
              ELSE /\ \E elapsed \in ElapsedTimes :
                        ret' = Result(c.x, c.nfev, elapsed)
                   /\ notebook' = [notebook EXCEPT
                                      !.calls = Append(@, c),
                                      !.C_b_ls = Append(@, C_b),
                                      !.F_ls = Append(@, c.x[1]),
                                      !.Q_dot_ls = Append(@, c.x[2]),
                                      !.i = @ + 1]
    /\ UNCHANGED <<model, controlled_vars, optimizer_run, measurements, train,
                   split, scaled, training, frames, deploy>>

\* After the loop: df = pd.DataFrame({...}); df.to_csv(FILE_PATH, index=False)
SurrogateDataWrite ==
    /\ notebook # None
    /\ notebook.at = "for C_b"
    /\ notebook.i = Len(SurrogateTargets)
    /\ LET df == [r \in 1..Len(notebook.C_b_ls) |->
                    [C_b |-> notebook.C_b_ls[r], F |-> notebook.F_ls[r],
                     Q_dot |-> notebook.Q_dot_ls[r]]]
       IN  notebook' = [notebook EXCEPT !.df = df, !.csv = df,
                                        !.at = NextCell("0db92370")]
    /\ UNCHANGED <<model, rng, ret, controlled_vars, optimizer_run,
                   measurements, train, split, scaled, training, frames,
                   deploy>>

\* Cell 59029f1b: model = CSTROptimizer()
BindSurrogate ==
    /\ notebook # None
    /\ notebook.at = "59029f1b"
    /\ model' = CSTROptimizer
    /\ notebook' = [notebook EXCEPT !.at = NextCell("59029f1b")]
    /\ UNCHANGED <<rng, ret, controlled_vars, optimizer_run, measurements,
                   train, split, scaled, training, frames, deploy>>

NotebookSpec ==
    Init /\ [][StartNotebook \/ OptimizeCell \/ SurrogateDataCell
               \/ SurrogateDataIteration \/ SurrogateDataWrite
               \/ BindSurrogate]_vars

\* The optimizer calls made by the loop of cell 0db92370: all but cell
\* 2b9309bc's, which is the first of the run.
LoopCalls == SubSeq(notebook.calls, 2, Len(notebook.calls))

\* C22: with surrogate data generation enabled, the calls the loop has made
\* are one per target for the targets 0.00, 0.01, ... in increasing order
\* (the last one may have raised and ended the run); after every iteration
\* C_b_ls, F_ls and Q_dot_ls have the same length, one entry per target
\* done; and the table written has 120 rows, row r holding the target
\* 0.01*(r-1) and the set point the r-th call returned.
C22_OneRowPerTarget ==
    (notebook # None /\ notebook.generate_surrogate_model_data
        /\ notebook.at \in {"for C_b", "stopped", "59029f1b", "end"}
        /\ Len(notebook.calls) >= 1 /\ ~notebook.calls[1].raised) =>
        /\ Len(notebook.C_b_ls) = notebook.i
        /\ Len(notebook.F_ls) = notebook.i
        /\ Len(notebook.Q_dot_ls) = notebook.i
        /\ \A r \in 1..Len(LoopCalls) : LoopCalls[r].C_b_ref = 100 * (r - 1)
        /\ Len(LoopCalls) =
              notebook.i + (IF notebook.at = "stopped" THEN 1 ELSE 0)
        /\ \A r \in 1..notebook.i :
              /\ ~LoopCalls[r].raised
              /\ notebook.C_b_ls[r] = 100 * (r - 1)
              /\ notebook.F_ls[r] = LoopCalls[r].x[1]
              /\ notebook.Q_dot_ls[r] = LoopCalls[r].x[2]
        /\ notebook.i <= 120
        /\ notebook.csv # None =>
              /\ Len(notebook.csv) = 120
              /\ Len(LoopCalls) = 120
              /\ \A r \in 1..120 :
                    notebook.csv[r] = [C_b   |-> 100 * (r - 1),
                                       F     |-> LoopCalls[r].x[1],
                                       Q_dot |-> LoopCalls[r].x[2]]
        /\ notebook.at \in {"59029f1b", "end"} => notebook.csv # None

C22_Witness ==
    /\ notebook # None
    /\ notebook.generate_surrogate_model_data
    /\ notebook.at = "59029f1b"
    /\ notebook.csv # None
    /\ Len(notebook.csv) = 120
    /\ notebook.csv[120].C_b = 11900
    /\ notebook.csv[1].F # notebook.csv[2].F

\* C25: in a top-to-bottom run every forward evaluation made by
\* optimal_manipulated_vars is made by the trained process model, the model
\* bound to `model` when the run reached the first optimizer call; `model`
\* is that process model until the run has passed its last optimizer call
\* and reached cell 59029f1b, and the surrogate after that cell.
C25_OptimizerUsesProcessModel ==
    notebook # None =>
        /\ notebook.process_model \in TrainedModels
        /\ \A c \in 1..Len(notebook.calls) :
              notebook.calls[c].model = notebook.process_model
        /\ notebook.at # "end" => model = notebook.process_model
        /\ notebook.at = "end" => model = CSTROptimizer
        /\ (notebook.at = "end"
              /\ notebook.generate_surrogate_model_data) =>
              Len(notebook.calls) = 121

C25_Witness ==
    /\ notebook # None
    /\ notebook.at = "end"
    /\ model = CSTROptimizer
    /\ notebook.generate_surrogate_model_data
    /\ Len(notebook.calls) = 121
    /\ notebook.calls[121].C_b_ref = 11900

\* ---------------------------------------------------------------------
\* evaluate_pytorch_model on the caller's table, with the arrays' buffers
\* explicit.  heap maps a buffer to its rows <<F, Q_dot>>; a table or an
\* array is the buffer it reads and writes.
\* ---------------------------------------------------------------------
ManipulatedRows ==
    {<<F, Q_dot>> : F \in {5000, 12000, 12345, 100000},
                    Q_dot \in {-500000, -1000, -55, 0}}

ManipulatedTables == UNION {[1..n -> ManipulatedRows] : n \in 1..MaxRows}

\* A selection that is a view: the array is the table's own buffer.
getitem_values_View(heap, table) == [heap |-> heap, array |-> table]
\* manipulated_vars[["F", "Q_dot"]].values: selecting a list of columns
\* copies the data into a new table, and .values is that table's array.
getitem_values(heap, table) ==
    LET new == Len(heap) + 1
    IN  [heap |-> Append(heap, heap[table]), array |-> new]

\* evaluate_pytorch_model(m, manipulated_vars) on buffers: the heap after
\* the call, whether the model raised, and the prediction if it did not.
evaluate_pytorch_model_buffers(m, heap, manipulated_vars) ==
    LET sel    == getitem_values(heap, manipulated_vars)
        rows   == 1..Len(sel.heap[sel.array])
        \* X_test[:,0] = ...; X_test[:,1] = ...: written into X_test's buffer
        after  == [sel.heap EXCEPT ![sel.array] =
                     [i \in rows |-> X_test([F |-> @[i][1], Q_dot |-> @[i][2]])]]
        raises == \E i \in rows :
                     /\ m.raises[1] <= after[sel.array][i][1]
                     /\ after[sel.array][i][1] <= m.raises[2]
    IN  [heap |-> after,
         raised |-> raises,
         prediction |->
           IF raises THEN <<>>
           ELSE [i \in rows |->
                   LET Y_test == Net(m, after[sel.array][i])
                   IN  [F     |-> Round(after[manipulated_vars][i][1], 10),
                        Q_dot |-> Round(after[manipulated_vars][i][2], 10),
                        C_a   |-> Round(Y_test[1], 10),
                        C_b   |-> Round(Y_test[2], 10),
                        T_K   |-> Round(Y_test_T_K(Y_test[3]), 100)]]]

\* manipulated_vars = pd.DataFrame({"F": [...], "Q_dot": [...]})
MakeTable ==
    /\ pc = "idle"
    /\ frames = None
    /\ \E rows \in ManipulatedTables :
         frames' = [heap |-> <<rows>>, manipulated_vars |-> 1,
                    given |-> rows, predictions |-> <<>>]
    /\ UNCHANGED <<model, rng, ret, optimizer, measurements, train, split,
                   scaled, training, notebook, deploy>>

\* prediction = evaluate_pytorch_model(model, manipulated_vars), once and
\* once more on the same table
EvaluateTable ==
    /\ frames # None
    /\ Len(frames.predictions) < 2
    /\ LET r == evaluate_pytorch_model_buffers(model, frames.heap,
                                               frames.manipulated_vars)
       IN  frames' = [frames EXCEPT !.heap = r.heap,
                                    !.predictions =
                                        Append(@, [raised |-> r.raised,
                                                   prediction |-> r.prediction])]
    /\ UNCHANGED <<model, rng, ret, optimizer, measurements, train, split,
                   scaled, training, notebook, deploy>>

FramesSpec == Init /\ [][MakeTable \/ EvaluateTable]_vars

\* C26: evaluate_pytorch_model leaves the caller's table as it was given;
\* the prediction's F and Q_dot are the caller's physical values rounded to
\* 2 and 1 decimals, the whole prediction being what the model gives for
\* those values; and a second evaluation of the same table gives the same
\* prediction as the first.
C26_CallerTableUnchanged ==
    frames # None =>
        /\ frames.heap[frames.manipulated_vars] = frames.given
        /\ \A n \in 1..Len(frames.predictions) :
              LET p == frames.predictions[n] IN
              /\ p = frames.predictions[1]
              /\ ~p.raised =>
                    \A i \in 1..Len(frames.given) :
                       LET row == [F |-> frames.given[i][1],
                                   Q_dot |-> frames.given[i][2]]
                       IN  /\ p.prediction[i].F = Round(row.F, 10)
                           /\ p.prediction[i].Q_dot = Round(row.Q_dot, 10)
                           /\ p.prediction[i] = evaluate_pytorch_model(model, row)
              /\ p.raised <=>
                    \E i \in 1..Len(frames.given) :
                       Raises(model, [F |-> frames.given[i][1],
                                      Q_dot |-> frames.given[i][2]])

C26_Witness ==
    /\ frames # None
    /\ Len(frames.predictions) = 2
    /\ frames.given = <<<<12345, -55>>, <<100000, -500000>>>>
    /\ frames.heap[frames.manipulated_vars] = frames.given
    /\ ~frames.predictions[2].raised
    /\ frames.predictions[2].prediction[1].F = 1234
    /\ frames.predictions[2].prediction[1].Q_dot = -6
    /\ frames.predictions[2].prediction[2].F = 10000
    /\ Len(frames.heap) = 3
    /\ frames.heap[3][2] = <<1000, 0>>

\* ---------------------------------------------------------------------
\* The hand-over of the process model: notebook 01 persists and uploads it
\* (cells e6263733, e6419944), notebook 02 compiles and packages it (cells
\* 4832dff1, f0b2322e, ca46c6a8, 0abde7b4), each run top to bottom.
\* A string is the sequence of its pieces; "{:s}" is a piece of a format
\* string.  A job name made by name_from_base is its base and the time
\* stamp appended to it.
\* ---------------------------------------------------------------------

\* bucket = "": the names the user inserts, in either notebook
Buckets == {<<"cstr-bucket">>, <<"models">>, <<"workshop">>}

\* Notebook 01: prefix, model_name
prefix == <<"models", "/", "pytorch">>
model_name == <<"cstr-model">>
\* Notebook 02: prefix, model_name, data_shape, key
prefix_02 == <<"models", "/", "pytorch">>
model_name_02 == <<"cstr-model">>
data_shape == [input0 |-> <<1, 2>>]
key == <<"workshop">>

\* str.format: the k-th "{:s}" is replaced by the k-th argument
RECURSIVE format(_, _)
format(template, args) ==
    IF template = <<>> THEN <<>>
    ELSE IF Head(template) = "{:s}"
    THEN Head(args) \o format(Tail(template), Tail(args))
    ELSE <<Head(template)>> \o format(Tail(template), args)

\* Notebook 01: "s3://{:s}/{:s}/{:s}.tar.gz".format(bucket, prefix, model_name)
model_s3_uri_01(bucket) ==
    format(<<"s3://", "{:s}", "/", "{:s}", "/", "{:s}", ".tar.gz">>,
           <<bucket, prefix, model_name>>)

\* The arguments of format in the other order.
model_s3_uri_Swapped(bucket) ==
    format(<<"s3://", "{:s}", "/", "{:s}", "/">> \o model_name_02
              \o <<".tar.gz">>,
           <<prefix_02, bucket>>)
\* Notebook 02:
\* ("s3://{:s}/{:s}/" + model_name + ".tar.gz").format(bucket, prefix)
model_s3_uri(bucket) ==
    format(<<"s3://", "{:s}", "/", "{:s}", "/">> \o model_name_02
              \o <<".tar.gz">>,
           <<bucket, prefix_02>>)

\* sess.upload_data(path, bucket, key_prefix): the object is put under the
\* key key_prefix + "/" + the file's name, and its S3 URI is returned.
upload_data(path, bucket, key_prefix) ==
    [Bucket |-> bucket,
     Key    |-> key_prefix \o <<"/">> \o path,
     uri    |-> <<"s3://">> \o bucket \o <<"/">> \o key_prefix \o <<"/">> \o path]

\* name_from_base(base) at time t
name_from_base(base, t) == [base |-> base, timestamp |-> t]

\* sagemaker_model.compile returns at once, the job still running
AfterCompileRequest_NoWait == "0abde7b4"
\* sagemaker_model.compile sends the request and waits for the job's end
AfterCompileRequest == "ca46c6a8 waiting"

\* Notebook 01, cell e6263733: the model is traced with torch.rand(1,2),
\* saved as cstr.pth and put into cstr-model.tar.gz.
PersistModel ==
    /\ pc = "idle"
    /\ deploy = None
    /\ \E bucket \in Buckets, t \in 1..2 :
         deploy' = [at |-> "e6419944", time |-> t, bucket |-> bucket,
                    file |-> [name |-> format(<<"{:s}", ".tar.gz">>,
                                              <<model_name>>),
                              member |-> "cstr.pth",
                              module |-> model,
                              traced_shape |-> <<1, 2>>],
                    s3 |-> {}, model_path |-> None, model_s3_uri |-> None,
                    notebook_02 |-> None, sagemaker_model |-> None,
                    requests |-> <<>>, compiled_model |-> None]
    /\ UNCHANGED <<model, rng, ret, optimizer, measurements, train, split,
                   scaled, training, notebook, frames>>

\* Notebook 01, cell e6419944: upload, and the URI printed
UploadModel ==
    /\ deploy # None
    /\ deploy.at = "e6419944"
    /\ LET up == upload_data(format(<<"{:s}", ".tar.gz">>, <<model_name>>),
                             deploy.bucket, prefix)
       IN  deploy' = [deploy EXCEPT
                         !.s3 = @ \cup {[Bucket |-> up.Bucket, Key |-> up.Key,
                                         Body |-> deploy.file]},
                         !.model_path = up.uri,
                         !.model_s3_uri = model_s3_uri_01(deploy.bucket),
                         !.time = @ + 1,
                         !.at = "4832dff1"]
    /\ UNCHANGED <<model, rng, ret, optimizer, measurements, train, split,
                   scaled, training, notebook, frames>>

\* Notebook 02, first cell and cell 4832dff1: bucket, and the configuration
Configure ==
    /\ deploy # None
    /\ deploy.at = "4832dff1"
    /\ \E bucket \in Buckets, d \in 1..2 :
         deploy' = [deploy EXCEPT
                       !.notebook_02 =
                           [bucket |-> bucket,
                            data_shape |-> data_shape,
                            model_s3_uri |-> model_s3_uri(bucket),
                            edge_packaging_job_name |->
                                model_name_02 \o <<"NeoPackage">> \o key,
                            compilation_job_name |->
                                name_from_base(model_name_02
                                                 \o <<"NeoCompile">> \o key,
                                               deploy.time + d)],
                       !.time = @ + d,
                       !.at = "f0b2322e"]
    /\ UNCHANGED <<model, rng, ret, optimizer, measurements, train, split,
                   scaled, training, notebook, frames>>

\* Cell f0b2322e: sagemaker_model = PyTorchModel(model_data = model_s3_uri, ...)
CreateModel ==
    /\ deploy # None
    /\ deploy.at = "f0b2322e"
    /\ deploy' = [deploy EXCEPT
                     !.sagemaker_model =
                         [model_data |-> deploy.notebook_02.model_s3_uri],
                     !.time = @ + 1,
                     !.at = "ca46c6a8"]
    /\ UNCHANGED <<model, rng, ret, optimizer, measurements, train, split,
                   scaled, training, notebook, frames>>

\* Cell ca46c6a8: sagemaker_model.compile(job_name = compilation_job_name,
\* input_shape = data_shape, ...) sends the compilation request
CompileRequest ==
    /\ deploy # None
    /\ deploy.at = "ca46c6a8"
    /\ deploy' = [deploy EXCEPT
                     !.requests =
                         Append(@, [api |-> "CreateCompilationJob",
                                    CompilationJobName |->
                                        deploy.notebook_02.compilation_job_name,
                                    S3Uri |-> deploy.sagemaker_model.model_data,
                                    DataInputConfig |->
                                        deploy.notebook_02.data_shape,
                                    time |-> deploy.time]),
                     !.at = AfterCompileRequest]
    /\ UNCHANGED <<model, rng, ret, optimizer, measurements, train, split,
                   scaled, training, notebook, frames>>

\* The objects of the store that a URI names.
ObjectsAt(s3, uri) ==
    {o \in s3 : <<"s3://">> \o o.Bucket \o <<"/">> \o o.Key = uri}

\* The compilation job ends and compile returns the compiled model, or the
\* job fails (it does when there is no archive at the URI) and compile
\* raises, which ends the run.
CompileReturn ==
    /\ deploy # None
    /\ deploy.at = "ca46c6a8 waiting"
    /\ \E d \in 1..2, ok \in BOOLEAN :
         LET job == deploy.requests[Len(deploy.requests)]
             found == ObjectsAt(deploy.s3, job.S3Uri)
         IN  IF ok /\ found # {}
             THEN deploy' = [deploy EXCEPT
                                !.compiled_model =
                                    [job_name |-> job.CompilationJobName,
                                     input_shape |-> job.DataInputConfig,
                                     archive |-> CHOOSE o \in found : TRUE,
                                     time |-> deploy.time + d],
                                !.time = @ + d,
                                !.at = "0abde7b4"]
             ELSE deploy' = [deploy EXCEPT !.time = @ + d, !.at = "stopped"]
    /\ UNCHANGED <<model, rng, ret, optimizer, measurements, train, split,
                   scaled, training, notebook, frames>>

\* Cell 0abde7b4: sm_client.create_edge_packaging_job(...)
PackageRequest ==
    /\ deploy # None
    /\ deploy.at = "0abde7b4"
    /\ deploy' = [deploy EXCEPT
                     !.requests =
                         Append(@, [api |-> "CreateEdgePackagingJob",
                                    EdgePackagingJobName |->
                                        deploy.notebook_02.edge_packaging_job_name,
                                    CompilationJobName |->
                                        deploy.notebook_02.compilation_job_name,
                                    time |-> deploy.time]),
                     !.time = @ + 1,
                     !.at = "end"]
    /\ UNCHANGED <<model, rng, ret, optimizer, measurements, train, split,
                   scaled, training, notebook, frames>>

PackagingSpec ==
    Init /\ [][PersistModel \/ UploadModel \/ Configure \/ CreateModel
               \/ CompileRequest \/ CompileReturn \/ PackageRequest]_vars

\* C27: when notebook 02 is given the bucket notebook 01 was given, the
\* model_s3_uri of notebook 02, which is the model_data of its
\* PyTorchModel and the source of its compilation job, is the URI of the
\* object notebook 01 uploaded: that bucket, the key
\* models/pytorch/cstr-model.tar.gz; it names that archive and nothing
\* else, and it is the URI notebook 01 printed.  The input shape given to
\* the compilation is [1, 2], the shape of the tensor the archived model
\* was traced with.
C27_SameArtifact ==
    (deploy # None /\ deploy.notebook_02 # None
        /\ deploy.notebook_02.bucket = deploy.bucket) =>
        LET uri == deploy.notebook_02.model_s3_uri IN
        /\ uri = deploy.model_path
        /\ uri = deploy.model_s3_uri
        /\ uri = <<"s3://">> \o deploy.bucket
                     \o <<"/", "models", "/", "pytorch", "/",
                          "cstr-model", ".tar.gz">>
        /\ ObjectsAt(deploy.s3, uri)
              = {[Bucket |-> deploy.bucket,
                  Key |-> <<"models", "/", "pytorch", "/",
                            "cstr-model", ".tar.gz">>,
                  Body |-> deploy.file]}
        /\ deploy.sagemaker_model # None
              => deploy.sagemaker_model.model_data = uri
        /\ \A n \in 1..Len(deploy.requests) :
              deploy.requests[n].api = "CreateCompilationJob" =>
                 /\ deploy.requests[n].S3Uri = uri
                 /\ deploy.requests[n].DataInputConfig.input0 = <<1, 2>>
                 /\ deploy.requests[n].DataInputConfig.input0
                       = deploy.file.traced_shape

C27_Witness ==
    /\ deploy # None
    /\ deploy.at = "0abde7b4"
    /\ deploy.bucket = <<"workshop">>
    /\ deploy.notebook_02.bucket = <<"workshop">>
    /\ deploy.compiled_model # None
    /\ deploy.compiled_model.archive.Body.traced_shape = <<1, 2>>
    /\ deploy.compiled_model.input_shape.input0 = <<1, 2>>
    /\ deploy.sagemaker_model.model_data = deploy.model_path

\* C28: every edge packaging request of a top-to-bottom run of notebook 02
\* is sent after a compilation request of the run and after the compile
\* call that sent it has returned the compiled model, and its
\* CompilationJobName is the job name of that compilation request, the
\* job_name given to compile.
C28_PackageAfterCompile ==
    deploy # None =>
        \A n \in 1..Len(deploy.requests) :
           deploy.requests[n].api = "CreateEdgePackagingJob" =>
              /\ deploy.compiled_model # None
              /\ deploy.compiled_model.time <= deploy.requests[n].time
              /\ deploy.compiled_model.job_name
                    = deploy.requests[n].CompilationJobName
              /\ \E c \in 1..(n - 1) :
                    /\ deploy.requests[c].api = "CreateCompilationJob"
                    /\ deploy.requests[c].CompilationJobName
                          = deploy.requests[n].CompilationJobName
                    /\ deploy.requests[c].time < deploy.compiled_model.time
              /\ deploy.requests[n].CompilationJobName.base
                    = <<"cstr-model", "NeoCompile", "workshop">>
              /\ deploy.requests[n].CompilationJobName
                    = deploy.notebook_02.compilation_job_name

C28_Witness ==
    /\ deploy # None
    /\ deploy.at = "end"
    /\ Len(deploy.requests) = 2
    /\ deploy.requests[1].api = "CreateCompilationJob"
    /\ deploy.requests[2].api = "CreateEdgePackagingJob"
    /\ deploy.requests[2].CompilationJobName
          = deploy.requests[1].CompilationJobName
    /\ deploy.requests[2].time > deploy.requests[1].time + 1

====
